---- MODULE Spec2Model ----
(***************************************************************************)
(* A model of the supplier knowledge base (knowledge_base.py), of the       *)
(* hybrid retrieval engine (hybrid_search.py, search_tool.py), of the      *)
(* contact finder (contact_finder/contact_scraper.py) and of the pipeline  *)
(* that runs them (main.py, streamlit_app/app.py).                         *)
(*                                                                         *)
(* The store is a FAISS flat L2 index (a sequence of vectors) and a        *)
(* parallel list of metadata dicts, persisted as two files that are        *)
(* overwritten on every add.  Embedding calls, metadata construction, the  *)
(* progress print and the two file writes can each raise; the model draws  *)
(* these outcomes nondeterministically and follows the try/except blocks   *)
(* of the code.                                                            *)
(***************************************************************************)
EXTENDS Integers, Sequences, FiniteSets, TLC

----------------------------------------------------------------------------
(* Bounds of the model *)

\* most vectors the index is allowed to hold
MaxStore == 2
\* longest list handed to add_suppliers_batch / save_to_knowledge_base
MaxBatch == 2
\* largest k and local_k
MaxK == 2
\* largest google_k
MaxGoogleK == 3
\* most organic results a web search returns
MaxWeb == 2

----------------------------------------------------------------------------
(* Input domains *)

\* company titles; "Acme Co" and "acme co" differ only in case
Titles == {"Acme Co", "acme co", "Beta"}

\* the source tags: the one _search_google and _build_metadata's default
\* give ("Google search" in the source's language), and the one
\* _merge_results gives a local result ("local knowledge base")
WebTag == "web_search"
LocalTag == "local_kb"
Sources == {WebTag, LocalTag}

\* a supplier dict as handed to the store: its title and its source tag
Suppliers == [title : Titles, source : Sources]

\* where the processing of one supplier raises:
\*   "embed" the embedding call, "meta" _build_metadata (the contact value is
\*   not a mapping), "print" the progress print, "none" nowhere
Faults == {"none", "embed", "meta", "print"}

\* where _save_index raises:
\*   "index" in faiss.write_index (index file untouched), "open" when opening
\*   the metadata file (index file already replaced), "dump" inside json.dump
\*   (metadata file truncated and partly written), "none" nowhere
DiskFaults == {"none", "index", "open", "dump"}

SeqsUpTo(S, n) == UNION {[1..k -> S] : k \in 0..n}

Min(a, b) == IF a < b THEN a ELSE b

\* a slice that does not cut
TakeAll(s, n) == s

\* Python's s[:n] for n >= 0
Take(s, n) == SubSeq(s, 1, Min(n, Len(s)))

----------------------------------------------------------------------------
(* Embedding and metadata *)

\* str.lower() on the titles of the model
Lower(t) == CASE t = "Acme Co" -> "acme co"
              [] t = "acme co" -> "acme co"
              [] t = "Beta"    -> "beta"

\* a key the dict does not have
Absent == "<absent>"

\* dict.get(key, default)
Get(s, key, default) ==
    IF key \in DOMAIN s /\ s[key] # Absent THEN s[key] ELSE default

\* f"{label}: {value}", as the pieces the string is made of
Line(label, value) == <<label, ": ", value>>

\* the truth value of a string: it is not empty
NonEmpty(p) == \E i \in 1..Len(p) : p[i] # ""

\* content_parts of _build_document_content
content_parts(s) ==
    << Line("company", Get(s, "title", "")),
       Line("category", Get(s, "category", "")),
       Line("type", Get(s, "match_type", "")),
       Line("description", Get(s, "snippet", "")),
       Line("reason", Get(s, "reason", "")) >>

\* _build_document_content: the text that is embedded, as the lines that
\* "\n".join puts together
build_document_content(s) == SelectSeq(content_parts(s), NonEmpty)

\* The embedding provider: a fixed function of the text, here of its
\* company line.  Vectors are points on a line, in thousandths.
embed_query(content) == CASE content[1][3] = "Acme Co" -> 0
                          [] content[1][3] = "acme co" -> 200
                          [] content[1][3] = "Beta"    -> 2261

\* dict.get(key, default) for a key whose values are numbers
GetNum(s, key, default) == IF key \in DOMAIN s THEN s[key] ELSE default

\* {}
EmptyDict == <<>>

\* _build_metadata: the record kept for a supplier.  Of the twelve keys the
\* category, the cooperation status and the date are left out.
build_metadata(s) ==
    LET contact == IF "contact" \in DOMAIN s THEN s.contact ELSE EmptyDict
    IN [company_name |-> Get(s, "title", "Unknown"),
        website |-> Get(s, "link", ""),
        match_type |-> Get(s, "match_type", ""),
        supplier_score |-> GetNum(s, "score", 0),
        contact_person |-> Get(contact, "name", ""),
        email |-> Get(contact, "email", ""),
        phone |-> Get(contact, "phone", ""),
        source |-> Get(s, "source", WebTag)]

\* the vector the store holds for a record built from supplier s
VectorOf(rec) == embed_query(build_document_content([title |-> rec.company_name]))

----------------------------------------------------------------------------
(* Files *)

NoFile == [state |-> "absent", data |-> <<>>]
CorruptFile == [state |-> "corrupt", data |-> <<>>]
FileOf(d) == [state |-> "ok", data |-> d]

\* json.dump of the metadata list: one object per record, an object being
\* its key/value pairs in insertion order
json_dump(meta) ==
    [i \in 1..Len(meta) |->
        << <<"company_name", meta[i].company_name>>,
           <<"website", meta[i].website>>,
           <<"match_type", meta[i].match_type>>,
           <<"supplier_score", meta[i].supplier_score>>,
           <<"contact_person", meta[i].contact_person>>,
           <<"email", meta[i].email>>,
           <<"phone", meta[i].phone>>,
           <<"source", meta[i].source>> >>]

ValueOf(obj, key) == (CHOOSE i \in 1..Len(obj) : obj[i][1] = key)

\* json.load: the list of dicts the text denotes
json_load(text) ==
    [i \in 1..Len(text) |->
        [company_name |-> text[i][ValueOf(text[i], "company_name")][2],
         website |-> text[i][ValueOf(text[i], "website")][2],
         match_type |-> text[i][ValueOf(text[i], "match_type")][2],
         supplier_score |-> text[i][ValueOf(text[i], "supplier_score")][2],
         contact_person |-> text[i][ValueOf(text[i], "contact_person")][2],
         email |-> text[i][ValueOf(text[i], "email")][2],
         phone |-> text[i][ValueOf(text[i], "phone")][2],
         source |-> text[i][ValueOf(text[i], "source")][2]]]

\* _save_index: the two files after the call.  The exception is swallowed,
\* so the caller sees nothing.
save_index(ix, meta, dsk, dfault) ==
    CASE dfault = "index" -> dsk
      [] dfault = "open"  -> [dsk EXCEPT !.index = FileOf(ix)]
      [] dfault = "dump"  -> [index |-> FileOf(ix), meta |-> CorruptFile]
      [] dfault = "none"  -> [index |-> FileOf(ix), meta |-> FileOf(json_dump(meta))]

\* _load_or_create_index looking for the files under a wrong name: it never
\* finds them and starts empty
load_or_create_index_fresh(dsk) ==
    [raised |-> FALSE, index |-> <<>>, suppliers |-> <<>>]

\* _load_or_create_index: the store a new SupplierKnowledgeBase starts with
load_or_create_index(dsk) ==
    IF dsk.index.state # "absent" /\ dsk.meta.state # "absent"
    THEN IF dsk.meta.state = "corrupt"
         THEN [raised |-> TRUE, index |-> <<>>, suppliers |-> <<>>]
         ELSE [raised |-> FALSE, index |-> dsk.index.data,
               suppliers |-> json_load(dsk.meta.data)]
    ELSE [raised |-> FALSE, index |-> <<>>, suppliers |-> <<>>]

----------------------------------------------------------------------------
(* add_supplier and add_suppliers_batch as functions of the store *)

\* add_supplier(supplier): the store and the files after the call, and the
\* value returned.  saved: whether _save_index was called.
add_supplier(ix, meta, dsk, s, fault, dfault) ==
    LET vec == embed_query(build_document_content(s))
        rec == build_metadata(s)
    IN CASE fault = "embed" ->
              [index |-> ix, suppliers |-> meta, disk |-> dsk,
               ret |-> FALSE, saved |-> FALSE]
         [] fault = "meta" ->
              [index |-> Append(ix, vec), suppliers |-> meta, disk |-> dsk,
               ret |-> FALSE, saved |-> FALSE]
         [] fault = "print" ->
              [index |-> Append(ix, vec), suppliers |-> Append(meta, rec),
               disk |-> dsk, ret |-> FALSE, saved |-> FALSE]
         [] fault = "none" ->
              [index |-> Append(ix, vec), suppliers |-> Append(meta, rec),
               disk |-> save_index(Append(ix, vec), Append(meta, rec), dsk, dfault),
               ret |-> TRUE, saved |-> TRUE]

\* the loop of add_suppliers_batch: an item reaches embeddings_to_add once
\* its embedding call returned, metadata_to_add once _build_metadata
\* returned, and is counted once its progress line was printed
EmbeddedItem(it) == it.fault # "embed"
RecordedItem(it) == it.fault \notin {"embed", "meta"}
CountedItem(it) == it.fault = "none"
ItemVector(it) == embed_query(build_document_content(it.sup))
ItemRecord(it) == build_metadata(it.sup)

embeddings_to_add(items) ==
    LET kept == SelectSeq(items, EmbeddedItem)
    IN [i \in 1..Len(kept) |-> ItemVector(kept[i])]

metadata_to_add(items) ==
    LET kept == SelectSeq(items, RecordedItem)
    IN [i \in 1..Len(kept) |-> ItemRecord(kept[i])]

success_count(items) == Len(SelectSeq(items, CountedItem))

\* the calls a loop that saved after every embedded item would make
batch_calls_per_item(items) ==
    LET Calls(i) == IF EmbeddedItem(items[i])
                    THEN <<[call |-> "embed_query", item |-> i],
                           [call |-> "index.add", item |-> i],
                           [call |-> "_save_index", item |-> i]>>
                    ELSE <<[call |-> "embed_query", item |-> i]>>
        Upto[n \in 0..Len(items)] == IF n = 0 THEN <<>> ELSE Upto[n - 1] \o Calls(n)
    IN Upto[Len(items)]

\* the calls add_suppliers_batch makes that reach the embedding service, the
\* index or the disk, in order: embed_query for every item in the loop
\* (item: its position), then, when embeddings_to_add is not empty, one
\* index.add and one _save_index for the batch (item 0)
batch_calls(items) ==
    [i \in 1..Len(items) |-> [call |-> "embed_query", item |-> i]]
    \o (IF embeddings_to_add(items) # <<>>
        THEN <<[call |-> "index.add", item |-> 0],
               [call |-> "_save_index", item |-> 0]>>
        ELSE <<>>)

\* add_suppliers_batch(suppliers)
add_suppliers_batch(ix, meta, dsk, items, dfault) ==
    IF embeddings_to_add(items) # <<>>
    THEN LET ix2 == ix \o embeddings_to_add(items)
             meta2 == meta \o metadata_to_add(items)
         IN [index |-> ix2, suppliers |-> meta2,
             disk |-> save_index(ix2, meta2, dsk, dfault),
             ret |-> success_count(items), saved |-> TRUE,
             calls |-> batch_calls(items)]
    ELSE [index |-> ix, suppliers |-> meta, disk |-> dsk,
          ret |-> success_count(items), saved |-> FALSE,
          calls |-> batch_calls(items)]

----------------------------------------------------------------------------
(* Similarity search *)

\* query texts, by the point their embedding is
Queries == {0, 3000}

\* thresholds, in millionths
MinSims == {400000, 500000, 600000}

\* the default of search_suppliers' min_similarity (0.5), in millionths
DefaultMinSimilarity == 500000

\* IndexFlatL2: the squared distance, in millionths
Distance(q, v) == (q - v) * (q - v)

\* np.exp(-distance / 10), in millionths (truncated), for the distances
\* between the points of the model and for those of Distances
Similarity(d) == CASE d = 0       -> 1000000
                   [] d = 1000    -> 999900
                   [] d = 2000    -> 999800
                   [] d = 80000000 -> 335
                   [] d = 40000   -> 996007
                   [] d = 546121  -> 946852
                   [] d = 4247721 -> 653918
                   [] d = 5112121 -> 599768
                   [] d = 7840000 -> 456576
                   [] d = 9000000 -> 406569

\* round(x, 3) of a value in millionths
Round3(x) == ((x + 500) \div 1000) * 1000

\* how many vectors come before ordinal i in ascending distance from q
\* (equal distances: the lower ordinal first)
Before(ix, q, i) ==
    Cardinality({j \in 1..Len(ix) :
        \/ Distance(q, ix[j]) < Distance(q, ix[i])
        \/ Distance(q, ix[j]) = Distance(q, ix[i]) /\ j < i})

\* index.search(query, kk): the ordinals of the kk nearest vectors, nearest
\* first
Nearest(ix, q, kk) ==
    Take([p \in 1..Len(ix) |-> CHOOSE i \in 1..Len(ix) : Before(ix, q, i) = p - 1], kk)

\* the dict search_suppliers builds for the hit at ordinal i; similarity is
\* the local variable of that name, which the threshold is tested on
Hit(ix, meta, q, i) ==
    [company_name |-> meta[i].company_name,
     website |-> meta[i].website,
     match_type |-> meta[i].match_type,
     supplier_score |-> meta[i].supplier_score,
     contact_person |-> meta[i].contact_person,
     email |-> meta[i].email,
     phone |-> meta[i].phone,
     source |-> meta[i].source,
     similarity |-> Similarity(Distance(q, ix[i])),
     similarity_score |-> Round3(Similarity(Distance(q, ix[i])))]

\* lines 180-204 of search_suppliers: embed the query, search the index,
\* build and filter the hits.  raised: the embedding call raised.
search_hits(ix, meta, q, k, ms, embedOk) ==
    IF ~embedOk THEN [raised |-> TRUE, results |-> <<>>]
    ELSE LET hits == Nearest(ix, q, Min(k, Len(meta)))
             InRange(i) == i <= Len(meta)
             found == SelectSeq(hits, InRange)
             all == [n \in 1..Len(found) |-> Hit(ix, meta, q, found[n])]
             Passes(h) == h.similarity >= ms
         IN [raised |-> FALSE, results |-> SelectSeq(all, Passes)]

\* search_suppliers without the test for an empty store and without the
\* except clause: what the embedding call raises reaches the caller
search_suppliers_unguarded(ix, meta, q, k, ms, embedOk) ==
    search_hits(ix, meta, q, k, ms, embedOk)

\* search_suppliers(query, k, min_similarity): what the caller gets.  An
\* empty store returns at once; every exception is caught and turned into
\* an empty list.
search_suppliers(ix, meta, q, k, ms, embedOk) ==
    IF Len(meta) = 0 THEN [raised |-> FALSE, results |-> <<>>]
    ELSE [raised |-> FALSE, results |-> search_hits(ix, meta, q, k, ms, embedOk).results]

----------------------------------------------------------------------------
(* Hybrid search *)

\* Config.TOP_N_SUPPLIERS
TOP_N_SUPPLIERS == 3

None == "None"

\* what a call of the search API ends in: organic results, an "error" key
\* in the response, an exception (network, key), or a response without
\* organic results
WebFailures == {"error", "exception", "no_organic"}
WebResponses == WebFailures \cup {"results"}

\* search_tool._search_google without its except clause: the exception
\* reaches the caller
serp_search_uncaught(resp) ==
    CASE resp = "results"    -> [raised |-> FALSE, found |-> TRUE]
      [] resp = "error"      -> [raised |-> FALSE, found |-> FALSE]
      [] resp = "no_organic" -> [raised |-> FALSE, found |-> FALSE]
      [] resp = "exception"  -> [raised |-> TRUE, found |-> FALSE]

\* search_tool._search_google on a response: whether it raised and whether
\* the list it returns holds anything
serp_search(resp) ==
    CASE resp = "results"    -> [raised |-> FALSE, found |-> TRUE]
      [] resp = "error"      -> [raised |-> FALSE, found |-> FALSE]
      [] resp = "no_organic" -> [raised |-> FALSE, found |-> FALSE]
      [] resp = "exception"  -> [raised |-> FALSE, found |-> FALSE]

\* the test of line 28 never taken: no second query
NeverRetry(r) == FALSE

\* line 28, "if not suppliers": the list the search returned is empty
NoSuppliers(r) == ~r.found

\* create_google_search_tool: first and second are the responses to the
\* query and to the simplified query, ranked is what the ranking step
\* returns for the results found.  calls: the searches made; rankings: the
\* calls of the ranking step.
create_google_search_tool(first, second, ranked) ==
    LET r1 == serp_search(first)
        retry == ~r1.raised /\ NoSuppliers(r1)
        r2 == IF retry THEN serp_search(second) ELSE r1
    IN IF r2.raised
       THEN [raised |-> TRUE, results |-> <<>>,
             calls |-> IF retry THEN 2 ELSE 1, rankings |-> 0]
       ELSE [raised |-> FALSE,
             results |-> IF r2.found THEN Take(ranked, TOP_N_SUPPLIERS) ELSE <<>>,
             calls |-> IF retry THEN 2 ELSE 1,
             rankings |-> IF r2.found THEN 1 ELSE 0]

\* _search_local: search_suppliers with its default threshold, then the
\* filter on the rounded score
search_local(ix, meta, q, k, ms, embedOk) ==
    LET results == search_suppliers(ix, meta, q, k, DefaultMinSimilarity, embedOk).results
        Keeps(r) == r.similarity_score >= ms
    IN SelectSeq(results, Keeps)

\* the link of the dict the ranking step returns for a title; the score and
\* the match type are the same for every title
ranked_link(t) == IF t = "Beta" THEN "https://beta.example" ELSE "https://acme.example"

\* _search_google: tags every result and cuts the list to k; what
\* create_google_search_tool raises is not caught
search_google(web, k) ==
    LET tool == create_google_search_tool(web.first, web.second, web.ranked)
        google_results == tool.results
    IN [raised |-> tool.raised,
        results |-> Take([i \in 1..Len(google_results) |->
                            [title |-> google_results[i],
                             link |-> ranked_link(google_results[i]),
                             score |-> 85,
                             match_type |-> "Manufacturer",
                             source |-> WebTag,
                             similarity_score |-> None]], k)]

\* the candidate _merge_results builds from a local result
LocalCandidate(r) ==
    [title |-> Get(r, "company_name", None),
     link |-> Get(r, "website", None),
     match_type |-> Get(r, "match_type", None),
     score |-> GetNum(r, "score", 0),
     contact |-> [name |-> Get(r, "contact_person", ""),
                  email |-> Get(r, "email", ""),
                  phone |-> Get(r, "phone", "")],
     source |-> LocalTag,
     similarity_score |-> r.similarity_score]

\* the loop of _merge_results over google_results, from position i on
RECURSIVE MergeLoop(_, _, _, _, _)
MergeLoop(merged, existing, google, i, target) ==
    IF i > Len(google) THEN merged
    ELSE IF Lower(google[i].title) \in existing
         THEN MergeLoop(merged, existing, google, i + 1, target)
         ELSE IF Len(merged) + 1 >= target
              THEN Append(merged, google[i])
              ELSE MergeLoop(Append(merged, google[i]),
                             existing \cup {Lower(google[i].title)},
                             google, i + 1, target)

\* _merge_results(local_results, google_results, target_count)
merge_results(local, google, target) ==
    LET merged == [i \in 1..Len(local) |-> LocalCandidate(local[i])]
        existing == {Lower(merged[i].title) : i \in 1..Len(merged)}
    IN Take(MergeLoop(merged, existing, google, 1, target), target)

\* the test of line 45 with <= for <
NeedsGoogleOrEqual(local, google_k) == Len(local) <= google_k

\* line 45: the web search is made when the local results are fewer than
\* google_k
NeedsGoogle(local, google_k) == Len(local) < google_k

IsWeb(c) == c.source = WebTag

\* HybridSearchEngine.search: the merged list, the two lists it came from,
\* the number of calls of create_google_search_tool, and the statistics.
\* raised: an exception left the call, and nothing is returned.
search(ix, meta, q, local_k, google_k, ms, embedOk, web) ==
    LET local_results == search_local(ix, meta, q, local_k, ms, embedOk)
        called == NeedsGoogle(local_results, google_k)
        googled == IF called THEN search_google(web, google_k)
                   ELSE [raised |-> FALSE, results |-> <<>>]
        google_results == googled.results
        merged_results == IF googled.raised THEN <<>>
                          ELSE merge_results(local_results, google_results, google_k)
    IN [raised |-> googled.raised,
        local |-> local_results,
        google |-> google_results,
        results |-> merged_results,
        web_calls |-> IF called THEN 1 ELSE 0,
        stats |-> [local_count |-> Len(local_results),
                   google_count |-> Len(google_results),
                   total_count |-> Len(merged_results),
                   sources_local |-> Len(local_results),
                   sources_web |-> Len(SelectSeq(merged_results, IsWeb))]]

----------------------------------------------------------------------------
(* State *)

VARIABLES
    up,         \* a SupplierKnowledgeBase instance exists
    index,      \* self.index: the vectors, by ordinal
    suppliers,  \* self.suppliers: the metadata records, by ordinal
    disk,       \* the files faiss.index and metadata.json
    written,    \* history: the store as of the last complete _save_index
    clean,      \* history: the last _save_index call completed
    out,        \* the last call and what it returned
    writers     \* the processes that share the directory, where there are
                \* several: each one's instance and the step it is at

vars == <<up, index, suppliers, disk, written, clean, out, writers>>

\* one process, whose instance is up, index and suppliers
NoWriters == <<>>

NothingWritten == [index |-> <<>>, suppliers |-> <<>>]

Init ==
    /\ up = TRUE
    /\ index = <<>>
    /\ suppliers = <<>>
    /\ disk = [index |-> NoFile, meta |-> NoFile]
    /\ written = NothingWritten
    /\ clean = FALSE
    /\ writers = NoWriters
    /\ out = [op |-> "init"]

\* history of _save_index after a call whose result is r
Written(r, dfault) ==
    /\ clean' = IF r.saved THEN dfault = "none" ELSE clean
    /\ written' = IF r.saved
                  THEN IF dfault = "none"
                       THEN [index |-> r.index, suppliers |-> r.suppliers]
                       ELSE NothingWritten
                  ELSE written

\* the supplier dicts add_supplier is called with: web-tagged, any title
StoreTitles == {"Acme Co", "Beta"}
Items == [sup : {s \in Suppliers : s.source = WebTag /\ s.title \in StoreTitles},
          fault : Faults]

\* the candidates save_to_knowledge_base is called with.  A local-tagged
\* candidate is filtered out before anything is done with it, so no fault
\* is drawn for it.
Candidates ==
    Items \cup {[sup |-> [title |-> "Acme Co", source |-> LocalTag], fault |-> "none"]}

\* the disk fault is drawn only for a call that reaches _save_index
DiskFaultsOf(saved) == IF saved THEN DiskFaults ELSE {"none"}

\* A call of add_supplier.  In every action r is what the call gives, the
\* one element of a singleton.
AddSupplier ==
    /\ up
    /\ Len(index) < MaxStore
    /\ \E it \in Items :
       \E dfault \in DiskFaultsOf(it.fault = "none") :
          \E r \in {add_supplier(index, suppliers, disk, it.sup, it.fault, dfault)} :
             /\ index' = r.index
             /\ suppliers' = r.suppliers
             /\ disk' = r.disk
             /\ Written(r, dfault)
             /\ out' = [op |-> "add", item |-> it, ret |-> r.ret,
                        saved |-> r.saved, dfault |-> dfault,
                        n0 |-> Len(suppliers), v0 |-> Len(index)]
    /\ UNCHANGED <<up, writers>>

\* save_to_knowledge_base: keeps the candidates tagged as web results
IsNew(c) == c.sup.source = WebTag
new_suppliers(candidates) == SelectSeq(candidates, IsNew)

\* save_to_knowledge_base(suppliers): add_suppliers_batch on the web-tagged
\* candidates, nothing when there are none
save_to_knowledge_base(ix, meta, dsk, candidates, dfault) ==
    IF new_suppliers(candidates) = <<>>
    THEN [index |-> ix, suppliers |-> meta, disk |-> dsk, ret |-> 0,
          saved |-> FALSE, calls |-> <<>>]
    ELSE add_suppliers_batch(ix, meta, dsk, new_suppliers(candidates), dfault)

\* A call of save_to_knowledge_base.  On a list of web-tagged candidates it
\* is a call of add_suppliers_batch on that list.
SaveToKnowledgeBase(C) ==
    /\ up
    /\ \E candidates \in SeqsUpTo(C, Min(MaxBatch, MaxStore - Len(index))) :
       \E dfault \in DiskFaultsOf(embeddings_to_add(new_suppliers(candidates)) # <<>>) :
          \E r \in {save_to_knowledge_base(index, suppliers, disk, candidates, dfault)} :
             /\ index' = r.index
             /\ suppliers' = r.suppliers
             /\ disk' = r.disk
             /\ Written(r, dfault)
             /\ out' = [op |-> "save_to_kb", candidates |-> candidates,
                        batch |-> new_suppliers(candidates),
                        ret |-> r.ret, saved |-> r.saved, dfault |-> dfault,
                        n0 |-> Len(suppliers), v0 |-> Len(index),
                        calls |-> r.calls]
    /\ UNCHANGED <<up, writers>>

\* the process ends and a new SupplierKnowledgeBase is constructed on the
\* same directory
Reload ==
    /\ \E r \in {load_or_create_index(disk)} :
          /\ up' = ~r.raised
          /\ index' = r.index
          /\ suppliers' = r.suppliers
          /\ out' = [op |-> "load", raised |-> r.raised]
    /\ UNCHANGED <<writers, disk, written, clean>>

Next == AddSupplier \/ SaveToKnowledgeBase(Candidates) \/ Reload

Spec == Init /\ [][Next]_vars

----------------------------------------------------------------------------
(* Reading.  search_suppliers, HybridSearchEngine.search,                  *)
(* _build_document_content and get_all_suppliers do not write to the       *)
(* store, so each behaviour of SpecSearch is one call on a store that      *)
(* add_supplier calls can have built.                                      *)

\* a call of search_suppliers
SearchSuppliers ==
    /\ up
    /\ \E q \in Queries, k \in 0..MaxK, ms \in MinSims, embedOk \in BOOLEAN :
          \E r \in {search_suppliers(index, suppliers, q, k, ms, embedOk)} :
             out' = [op |-> "search", q |-> q, k |-> k, ms |-> ms,
                     embedOk |-> embedOk, raised |-> r.raised,
                     results |-> r.results]
    /\ UNCHANGED <<writers, up, index, suppliers, disk, written, clean>>

\* the ranked lists a web search that found results gives
Ranked == SeqsUpTo(Titles, MaxWeb) \ {<<>>}

\* what the web would answer to a call of create_google_search_tool: the
\* first query finds results; or it fails and so does the simplified one;
\* or it fails and the simplified one finds a single result
WebOutcomes ==
    {[first |-> "results", second |-> "results", ranked |-> r] : r \in Ranked}
    \cup {[first |-> f, second |-> g, ranked |-> <<>>] : f \in WebFailures, g \in WebFailures}
    \cup {[first |-> f, second |-> "results", ranked |-> <<t>>] : f \in WebFailures, t \in Titles}

\* a call of HybridSearchEngine.search
HybridSearch ==
    /\ up
    /\ \E q \in Queries, local_k \in 0..MaxK, google_k \in 0..MaxGoogleK,
          ms \in MinSims, embedOk \in BOOLEAN, web \in WebOutcomes :
          \E r \in {search(index, suppliers, q, local_k, google_k, ms, embedOk, web)} :
             out' = [op |-> "hybrid", q |-> q, local_k |-> local_k,
                     google_k |-> google_k, ms |-> ms, embedOk |-> embedOk,
                     first |-> web.first, second |-> web.second,
                     raised |-> r.raised,
                     ranked |-> web.ranked, local |-> r.local, google |-> r.google,
                     results |-> r.results, web_calls |-> r.web_calls,
                     stats |-> r.stats]
    /\ UNCHANGED <<writers, up, index, suppliers, disk, written, clean>>

\* the lists _rank_suppliers_with_llm can return: what the model answered,
\* of any length, or the fallback; never empty
MaxRanked == 4
RankedLists == SeqsUpTo(Titles, MaxRanked) \ {<<>>}

\* a call of create_google_search_tool on its own.  The ranked list is drawn
\* when one of the two responses holds results.
GoogleSearchTool ==
    /\ up
    /\ \E first \in WebResponses, second \in WebResponses :
       \E ranked \in IF "results" \in {first, second} THEN RankedLists ELSE {<<>>} :
          \E r \in {create_google_search_tool(first, second, ranked)} :
             out' = [op |-> "tool", first |-> first, second |-> second,
                     ranked |-> ranked, raised |-> r.raised,
                     calls |-> r.calls, rankings |-> r.rankings,
                     results |-> r.results]
    /\ UNCHANGED <<writers, up, index, suppliers, disk, written, clean>>

\* distances the index can return, in millionths: 0, 0.001, 0.002, 0.04, 80
Distances == {0, 1000, 2000, 40000, 80000000}

\* lines 196-197 on two distances: the similarity and the rounded
\* similarity_score of each
SimilarityOf ==
    /\ up
    /\ \E d1 \in Distances, d2 \in Distances :
          out' = [op |-> "similarity", d1 |-> d1, d2 |-> d2,
                  s1 |-> Similarity(d1), s2 |-> Similarity(d2),
                  score1 |-> Round3(Similarity(d1)),
                  score2 |-> Round3(Similarity(d2))]
    /\ UNCHANGED <<writers, up, index, suppliers, disk, written, clean>>

(* contact_scraper.py *)

\* Python's None as the value a strategy returns
NoneValue == [none |-> TRUE]

\* the placeholder the strategies put where nothing was found
NotFound == "not_found"

\* what the searches and the extraction of strategy 1 end in: nothing, or a
\* contact whose confidence is low, medium or high, or one that the model
\* answered without a confidence key
Strategy1Outcomes == {"none", "low", "high", "unrated"}

\* what strategy 2 ends in: nothing, or a profile (always rated medium)
Strategy2Outcomes == {"none", "medium"}

\* _strategy_1_search_contact_page
strategy_1_search_contact_page(s1) ==
    IF s1 = "none" THEN NoneValue
    ELSE [name |-> "Ann Lee", email |-> "ann@acme.example", phone |-> "555-0100",
          confidence |-> IF s1 = "unrated" THEN Absent ELSE s1]

\* _strategy_2_linkedin_search
strategy_2_linkedin_search(s2) ==
    IF s2 = "none" THEN NoneValue
    ELSE [name |-> "Bo Chen", email |-> NotFound, linkedin |-> "linkedin.com/in/bo",
          confidence |-> s2]

\* _extract_domain
extract_domain(website) ==
    CASE website = "https://acme.example" -> "acme.example"
      [] website = "https://beta.example" -> "beta.example"
      [] OTHER -> None

\* _strategy_3_smart_guess
strategy_3_smart_guess(website) ==
    LET domain == IF website # "" THEN extract_domain(website) ELSE None
    IN [name |-> "Sales Department",
        email |-> CASE domain = "acme.example" -> "sales@acme.example"
                    [] domain = "beta.example" -> "sales@beta.example"
                    [] OTHER -> NotFound,
        phone |-> NotFound, confidence |-> "low"]

\* the test of lines 32 and 39 passing whatever the confidence is
AnyConfidence(c) == c # NoneValue

\* lines 32 and 39: the strategy returned something and its confidence is
\* not "low"
Usable(c) == c # NoneValue /\ Get(c, "confidence", None) # "low"

\* find_contact_info: the contact returned and the strategies started
find_contact_info(s1, s2, website) ==
    LET contact_info == strategy_1_search_contact_page(s1)
        linkedin_info == strategy_2_linkedin_search(s2)
    IN IF Usable(contact_info)
       THEN [contact |-> contact_info, started |-> <<1>>]
       ELSE IF Usable(linkedin_info)
            THEN [contact |-> linkedin_info, started |-> <<1, 2>>]
            ELSE [contact |-> strategy_3_smart_guess(website), started |-> <<1, 2, 3>>]

\* supplier['contact'] = contact_info
WithContact(s, c) ==
    [key \in DOMAIN s \cup {"contact"} |-> IF key = "contact" THEN c ELSE s[key]]

\* batch_find_contacts: the list returned and, for each entry, the
\* strategies find_contact_info started.  todo[i].s is the supplier,
\* todo[i].s1 and todo[i].s2 what the two searching strategies end in for it.
batch_find_contacts(todo) ==
    [i \in 1..Len(todo) |->
        LET found == find_contact_info(todo[i].s1, todo[i].s2,
                                       Get(todo[i].s, "link", ""))
        IN [supplier |-> WithContact(todo[i].s, found.contact),
            started |-> found.started]]

\* the suppliers batch_find_contacts is called with, and what the web holds
\* for each
MaxContacts == 2
ContactTodo ==
    [s : [title : {"Acme Co"}, link : {"", "https://acme.example"}],
     s1 : Strategy1Outcomes, s2 : Strategy2Outcomes]

\* a call of batch_find_contacts
BatchFindContacts ==
    /\ up
    /\ \E todo \in SeqsUpTo(ContactTodo, MaxContacts) :
          out' = [op |-> "contacts", todo |-> todo,
                  enriched |-> batch_find_contacts(todo)]
    /\ UNCHANGED <<writers, up, index, suppliers, disk, written, clean>>

\* the supplier dicts _build_document_content is called with: each of the
\* five fields absent, empty or filled
DocSuppliers ==
    [title : {Absent, "", "Acme Co"}, category : {Absent, "", "Audio"},
     match_type : {Absent, "", "Factory"}, snippet : {Absent, "", "Makes headsets"},
     reason : {Absent, "", "Good fit"}]

\* a call of _build_document_content
BuildDocumentContent ==
    /\ up
    /\ \E s \in DocSuppliers :
          out' = [op |-> "doc", supplier |-> s,
                  content |-> build_document_content(s)]
    /\ UNCHANGED <<writers, up, index, suppliers, disk, written, clean>>

\* get_all_suppliers: self.suppliers.copy() is a new list whose elements
\* are the dicts of the store themselves, here named by their ordinal
get_all_suppliers(meta) ==
    [list |-> "copy",
     records |-> [i \in 1..Len(meta) |-> [obj |-> "store", at |-> i]]]

\* what a caller does with the list it got: append an element to it, remove
\* its last element, or assign a field of one of its records
CallerEdits(n) ==
    {[kind |-> "append", at |-> 0, value |-> "Beta"]}
    \cup (IF n > 0 THEN {[kind |-> "remove", at |-> n, value |-> ""]} ELSE {})
    \cup {[kind |-> "set_field", at |-> i, value |-> v] : i \in 1..n, v \in {"Beta", "Edited"}}

\* self.suppliers after the caller's edit of the list snapshot
after_edit(meta, snapshot, edit) ==
    CASE edit.kind = "append" ->
            IF snapshot.list = "store"
            THEN Append(meta, build_metadata([title |-> edit.value]))
            ELSE meta
      [] edit.kind = "remove" ->
            IF snapshot.list = "store" THEN SubSeq(meta, 1, Len(meta) - 1) ELSE meta
      [] edit.kind = "set_field" ->
            LET target == snapshot.records[edit.at]
            IN IF target.obj = "store"
               THEN [meta EXCEPT ![target.at].company_name = edit.value]
               ELSE meta

\* a call of get_all_suppliers followed by one edit of what it returned
GetAllSuppliers ==
    /\ up
    /\ \E edit \in CallerEdits(Len(suppliers)) :
          /\ suppliers' = after_edit(suppliers, get_all_suppliers(suppliers), edit)
          /\ out' = [op |-> "get_all", edit |-> edit, before |-> suppliers]
    /\ UNCHANGED <<writers, up, index, disk, written, clean>>

\* the stores add_supplier calls build when no call reaches _save_index:
\* a vector for every supplier whose embedding returned, a record for those
\* whose metadata was built as well
BuiltBy == SeqsUpTo([sup : {s \in Suppliers : s.source = WebTag /\ s.title \in StoreTitles},
                     fault : {"meta", "print"}], MaxStore)

InitSearch ==
    /\ up = TRUE
    /\ \E items \in BuiltBy :
          /\ index = embeddings_to_add(items)
          /\ suppliers = metadata_to_add(items)
    /\ disk = [index |-> NoFile, meta |-> NoFile]
    /\ written = NothingWritten
    /\ clean = FALSE
    /\ writers = NoWriters
    /\ out = [op |-> "init"]

\* one call per behaviour
NextSearch ==
    \/ out.op = "init" /\ SearchSuppliers
    \/ out.op = "init" /\ HybridSearch
    \/ out.op = "init" /\ BuildDocumentContent
    \/ out.op = "init" /\ GetAllSuppliers
    \/ out.op = "init" /\ GoogleSearchTool
    \/ out.op = "init" /\ SimilarityOf
    \/ out.op = "init" /\ BatchFindContacts

SpecSearch == InitSearch /\ [][NextSearch]_vars

----------------------------------------------------------------------------
(* main.py: run_complete_pipeline.  Every run constructs its own           *)
(* HybridSearchEngine, that is, loads the store from the directory.        *)

\* lines 151-159: the supplier has a contact whose email holds an "@"
HasAt(email) == email \in {"ann@acme.example", "sales@acme.example", "sales@beta.example"}
has_valid_contact(s) ==
    /\ "contact" \in DOMAIN s
    /\ HasAt(Get(s.contact, "email", ""))

\* lines 172-175: every supplier whose title is among the enriched ones
\* gets the contact of the last enriched supplier of that title
update_contacts(top_suppliers, enriched) ==
    [i \in 1..Len(top_suppliers) |->
        LET same == {j \in 1..Len(enriched) :
                        enriched[j].supplier.title = top_suppliers[i].title}
            last == CHOOSE j \in same : \A l \in same : l <= j
        IN IF same = {} THEN top_suppliers[i]
           ELSE WithContact(top_suppliers[i], enriched[last].supplier.contact)]

\* what the web answers to the search of a run: a ranked list, or nothing
PipelineRanked == {<<"Acme Co">>, <<"Beta">>, <<"Acme Co", "Beta">>, <<"acme co">>}
PipelineWeb ==
    {[first |-> "results", second |-> "results", ranked |-> r] : r \in PipelineRanked}
    \cup {[first |-> "error", second |-> "no_organic", ranked |-> <<>>]}

\* what the user and the web give to a run whose PDF is parsed: the query
\* it yields, the web's answer to the search, whether the contact
\* search is enabled and confirmed at the prompt, and what the two searching
\* strategies end in (the same for every supplier of the run)
PipelineInputs ==
    [q : Queries, web : PipelineWeb,
     contacts : {"off", "declined", "accepted"},
     s1 : {"none", "high"}, s2 : {"none"}]

\* lines 127-132: the search of the run, on the store its engine loaded
pipeline_search(kb, in) ==
    search(kb.index, kb.suppliers, in.q, 5, 3, DefaultMinSimilarity, TRUE, in.web)

\* lines 146-182: the contact step.  searched: batch_find_contacts was
\* called; shown: top_suppliers after the step.
pipeline_contacts(top_suppliers, in) ==
    LET IsTodo(s) == ~has_valid_contact(s)
        suppliers_need_contact == SelectSeq(top_suppliers, IsTodo)
        searched == in.contacts = "accepted" /\ suppliers_need_contact # <<>>
    IN [searched |-> searched,
        shown |-> IF searched
                  THEN update_contacts(top_suppliers,
                           batch_find_contacts(
                               [i \in 1..Len(suppliers_need_contact) |->
                                   [s |-> suppliers_need_contact[i],
                                    s1 |-> in.s1, s2 |-> in.s2]]))
                  ELSE top_suppliers]

\* the steps of a run that got past the search, in the order of the calls
pipeline_steps(searched) ==
    <<"parse_pdf", "search">>
    \o (IF searched THEN <<"batch_find_contacts">> ELSE <<>>)
    \o <<"print_suppliers_with_contacts", "save_to_knowledge_base">>

\* the most runs of a behaviour
MaxRuns == 3

\* a run of run_complete_pipeline that returns at the first step: the PDF
\* cannot be parsed
PipelineStopsAtPdf ==
    /\ out.runs < MaxRuns
    /\ out' = [op |-> "pipeline", runs |-> out.runs + 1, q |-> 0,
               steps |-> <<"parse_pdf">>, shown |-> <<>>, history |-> out.history]
    /\ UNCHANGED <<up, index, suppliers, disk, written, clean, writers>>

\* a run of run_complete_pipeline whose PDF is parsed: it returns after the
\* search when the engine cannot be constructed or nothing is found, and
\* otherwise finds contacts, shows the list and saves it.  out.history: the
\* candidates the runs so far passed to add_suppliers_batch.
RunCompletePipeline ==
    /\ out.runs < MaxRuns
    /\ \E in \in PipelineInputs :
       \E kb \in {load_or_create_index(disk)} :
       \E found \in {pipeline_search(kb, in)} :
       \E c \in {pipeline_contacts(found.results, in)} :
       \E candidates \in {[i \in 1..Len(c.shown) |-> [sup |-> c.shown[i], fault |-> "none"]]} :
       \E kept \in {save_to_knowledge_base(kb.index, kb.suppliers, disk, candidates, "none")} :
       \E saved \in {new_suppliers(candidates)} :
          IF kb.raised \/ found.raised \/ found.results = <<>>
          THEN /\ index' = kb.index
               /\ suppliers' = kb.suppliers
               /\ disk' = disk
               /\ out' = [op |-> "pipeline", runs |-> out.runs + 1, q |-> in.q,
                          steps |-> <<"parse_pdf", "search">>, shown |-> <<>>,
                          history |-> out.history]
          ELSE /\ index' = kept.index
               /\ suppliers' = kept.suppliers
               /\ disk' = kept.disk
               /\ out' = [op |-> "pipeline", runs |-> out.runs + 1, q |-> in.q,
                          steps |-> pipeline_steps(c.searched), shown |-> c.shown,
                          history |-> out.history
                                        \cup {saved[i].sup : i \in 1..Len(saved)}]
    /\ UNCHANGED <<up, written, clean, writers>>

InitPipeline ==
    /\ up = TRUE
    /\ index = <<>>
    /\ suppliers = <<>>
    /\ disk = [index |-> NoFile, meta |-> NoFile]
    /\ written = NothingWritten
    /\ clean = FALSE
    /\ writers = NoWriters
    /\ out = [op |-> "init", runs |-> 0, history |-> {}]

NextPipeline == PipelineStopsAtPdf \/ RunCompletePipeline

SpecPipeline == InitPipeline /\ [][NextPipeline]_vars

----------------------------------------------------------------------------
(* Two processes on one directory.  Each constructs a SupplierKnowledgeBase *)
(* (streamlit_app/app.py line 201 does at every analysis), adds a supplier  *)
(* and saves; _save_index overwrites the index file and then the metadata   *)
(* file, and nothing orders the writes of one process against those of the *)
(* other.                                                                   *)

Procs == {1, 2}

\* _save_index reading the files again and appending to what they hold
merged_snapshot(w, dsk) ==
    [index |-> dsk.index.data \o <<w.vector>>,
     suppliers |-> json_load(dsk.meta.data) \o <<w.record>>]

\* what _save_index of process w writes: self.index and self.suppliers,
\* whatever the files hold
snapshot(w, dsk) == [index |-> w.index, suppliers |-> w.suppliers]

\* the supplier each process adds
WriterItem(p) == [title |-> IF p = 1 THEN "Acme Co" ELSE "Beta", source |-> WebTag]

\* the directories the processes find: empty, or written by one earlier add
WriterBases == SeqsUpTo({[sup |-> [title |-> t, source |-> WebTag], fault |-> "none"] :
                            t \in StoreTitles}, 1)

\* the constructor of process p: _load_or_create_index
WriterLoad(p) ==
    /\ writers[p].pc = "new"
    /\ \E r \in {load_or_create_index(disk)} :
          writers' = [writers EXCEPT ![p] =
                         [@ EXCEPT !.pc = IF r.raised THEN "failed" ELSE "loaded",
                                   !.index = r.index, !.suppliers = r.suppliers,
                                   !.seen = disk]]
    /\ out' = [op |-> "load", proc |-> p]
    /\ UNCHANGED <<up, index, suppliers, disk, written, clean>>

\* the add of process p up to _save_index: the vector and the record are
\* appended in memory
WriterAdd(p) ==
    /\ writers[p].pc = "loaded"
    /\ \E vec \in {embed_query(build_document_content(WriterItem(p)))},
          rec \in {build_metadata(WriterItem(p))} :
          writers' = [writers EXCEPT ![p] =
                         [@ EXCEPT !.pc = "added",
                                   !.index = Append(@, vec),
                                   !.suppliers = Append(@, rec),
                                   !.vector = vec, !.record = rec]]
    /\ out' = [op |-> "add", proc |-> p]
    /\ UNCHANGED <<up, index, suppliers, disk, written, clean>>

\* faiss.write_index of process p
WriterWriteIndex(p) ==
    /\ writers[p].pc = "added"
    /\ disk' = [disk EXCEPT !.index = FileOf(snapshot(writers[p], disk).index)]
    /\ writers' = [writers EXCEPT ![p].pc = "index_written"]
    /\ out' = [op |-> "write_index", proc |-> p]
    /\ UNCHANGED <<up, index, suppliers, written, clean>>

\* json.dump of process p into the metadata file
WriterWriteMetadata(p) ==
    /\ writers[p].pc = "index_written"
    /\ disk' = [disk EXCEPT !.meta = FileOf(json_dump(snapshot(writers[p], disk).suppliers))]
    /\ writers' = [writers EXCEPT ![p].pc = "done"]
    /\ out' = [op |-> "write_metadata", proc |-> p]
    /\ UNCHANGED <<up, index, suppliers, written, clean>>

InitWriters ==
    /\ up = TRUE
    /\ index = <<>>
    /\ suppliers = <<>>
    /\ \E base \in WriterBases :
          disk = IF base = <<>> THEN [index |-> NoFile, meta |-> NoFile]
                 ELSE save_index(embeddings_to_add(base), metadata_to_add(base),
                                 [index |-> NoFile, meta |-> NoFile], "none")
    /\ written = NothingWritten
    /\ clean = FALSE
    /\ out = [op |-> "init"]
    /\ writers = [p \in Procs |->
                     [pc |-> "new", index |-> <<>>, suppliers |-> <<>>,
                      seen |-> [index |-> NoFile, meta |-> NoFile],
                      vector |-> 0, record |-> build_metadata(WriterItem(p))]]

NextWriters ==
    \E p \in Procs :
        \/ WriterLoad(p)
        \/ WriterAdd(p)
        \/ WriterWriteIndex(p)
        \/ WriterWriteMetadata(p)

SpecWriters == InitWriters /\ [][NextWriters]_vars

----------------------------------------------------------------------------
(* Properties *)

\* ix and meta are in lock-step: as many records as vectors, and the vector
\* at every ordinal is the one embedded for the record at that ordinal
Aligned(ix, meta) ==
    /\ Len(ix) = Len(meta)
    /\ \A i \in 1..Len(meta) : ix[i] = VectorOf(meta[i])

\* the part of s after its first n elements
From(s, n) == SubSeq(s, n + 1, Len(s))

\* C1: in every state reached by add_supplier and add_suppliers_batch calls,
\* whatever raised inside them, the store holds as many records as vectors
\* and the record at ordinal i was built from the supplier of vector i.
C1_InMemoryLockStep == up => Aligned(index, suppliers)

\* C2: after any sequence of add_supplier / add_suppliers_batch calls, also
\* ones whose _save_index raised between or inside the two file writes, a
\* SupplierKnowledgeBase constructed from the directory (if its constructor
\* returns) holds as many records as vectors, in matching order.  Stated
\* for the states whose store in memory is in lock-step, so that a
\* violation is one the file writes produce.
C2_OnDiskLockStep ==
    (up /\ Aligned(index, suppliers)) =>
        LET r == load_or_create_index(disk)
        IN r.raised \/ Aligned(r.index, r.suppliers)

\* C3: the list HybridSearchEngine.search returns is never longer than
\* local_k + google_k.
C3_MergeCap ==
    out.op = "hybrid" => Len(out.results) <= out.local_k + out.google_k

\* a search that had more web results than google_k to pick from and
\* returned a list of exactly local_k + google_k entries
C3_Witness ==
    /\ out.op = "hybrid"
    /\ out.google_k > 0
    /\ Len(out.ranked) > out.google_k
    /\ Len(out.results) = out.local_k + out.google_k

\* the positions of the entries of a merged list whose title is key when
\* case is ignored
Keyed(results, key) == {i \in 1..Len(results) : Lower(results[i].title) = key}

\* C4: when a local result and a web result have titles equal ignoring
\* case, the merged list holds exactly one entry with that key, the entry
\* is the local one, and it precedes every web entry.
C4_DedupLocalFirst ==
    out.op = "hybrid" =>
        \A l \in 1..Len(out.local), w \in 1..Len(out.google) :
            Lower(out.local[l].company_name) = Lower(out.google[w].title) =>
                LET at == Keyed(out.results, Lower(out.google[w].title))
                IN /\ Cardinality(at) = 1
                   /\ \A i \in at :
                        /\ out.results[i].source = LocalTag
                        /\ \A j \in 1..Len(out.results) :
                              out.results[j].source = WebTag => i < j

\* C5: search calls create_google_search_tool once when fewer than google_k
\* local results passed the threshold and not at all otherwise, so not when
\* their number equals google_k.
C5_LocalFirst ==
    out.op = "hybrid" =>
        /\ out.web_calls = (IF Len(out.local) < out.google_k THEN 1 ELSE 0)
        /\ Len(out.local) = out.google_k => out.web_calls = 0

\* a search with as many local results as google_k, at least one, and a web
\* search that would have returned something: no call was made
C5_Witness ==
    /\ out.op = "hybrid"
    /\ out.google_k > 0
    /\ Len(out.local) = out.google_k
    /\ out.ranked # <<>>
    /\ out.web_calls = 0

NoEmbeddingFailed(items) == \A i \in 1..Len(items) : items[i].fault # "embed"

\* the records built from the items of a list, in list order
RecordsOf(items) == [i \in 1..Len(items) |-> ItemRecord(items[i])]

\* the vectors embedded for the items of a list, in list order
VectorsOf(items) == [i \in 1..Len(items) |-> ItemVector(items[i])]

\* C6: when no embedding call fails, save_to_knowledge_base appends one
\* record per web-tagged candidate, in list order, and none for a
\* local-tagged one.
C6_SaveBackExclusive ==
    (out.op = "save_to_kb" /\ NoEmbeddingFailed(out.candidates)) =>
        From(suppliers, out.n0) = RecordsOf(SelectSeq(out.candidates, IsNew))

\* C7: once a _save_index call has completed, constructing a store from the
\* directory gives the records that were written, field by field and in
\* order, the vectors that were written, and so the same search results.
C7_RoundTrip ==
    clean =>
        LET r == load_or_create_index(disk)
        IN /\ ~r.raised
           /\ r.suppliers = written.suppliers
           /\ r.index = written.index
           /\ \A q \in Queries, k \in 1..MaxK :
                search_suppliers(r.index, r.suppliers, q, k, DefaultMinSimilarity, TRUE)
                  = search_suppliers(written.index, written.suppliers, q, k,
                                     DefaultMinSimilarity, TRUE)

\* a store reloaded after two different records were written
C7_Witness ==
    /\ out.op = "load"
    /\ clean
    /\ Len(written.suppliers) >= 2
    /\ written.suppliers[1] # written.suppliers[2]
    /\ suppliers = written.suppliers
    /\ index = written.index

\* C8: no record search_suppliers returns has a similarity (as computed
\* from its distance, before rounding) below min_similarity, and no local
\* entry of a HybridSearchEngine.search result has one below the
\* min_similarity of that call.
C8_Threshold ==
    /\ out.op = "search" =>
          \A i \in 1..Len(out.results) : out.results[i].similarity >= out.ms
    /\ out.op = "hybrid" =>
          \A i \in 1..Len(out.results) :
              out.results[i].source = LocalTag => out.local[i].similarity >= out.ms

\* C9: search_suppliers on a store without records returns an empty list
\* and does not raise.
C9_EmptyStore ==
    (out.op = "search" /\ Len(suppliers) = 0) =>
        /\ ~out.raised
        /\ out.results = <<>>

\* a search for k > 0 records in a store without records while the
\* embedding provider is down: the list returned is empty
C9_Witness ==
    /\ out.op = "search"
    /\ Len(suppliers) = 0
    /\ ~out.embedOk
    /\ out.k > 0
    /\ out.results = <<>>

\* C10: add_suppliers_batch adds exactly the items whose embedding call did
\* not fail, vector and record, in input order, adds nothing for the others,
\* and writes the result to disk.
C10_BatchIsolation ==
    (out.op = "save_to_kb" /\ out.batch # <<>>) =>
        /\ From(index, out.v0) = VectorsOf(SelectSeq(out.batch, EmbeddedItem))
        /\ From(suppliers, out.n0) = RecordsOf(SelectSeq(out.batch, EmbeddedItem))
        /\ (out.saved /\ out.dfault = "none") =>
              /\ disk.index = FileOf(index)
              /\ disk.meta = FileOf(json_dump(suppliers))

\* C11: add_suppliers_batch (and so save_to_knowledge_base) returns the
\* number of records, and of vectors, the store grew by during the call;
\* add_supplier returns True exactly when the store grew by one record and
\* one vector, and False exactly when it did not grow.
C11_ReturnIsGrowth ==
    /\ out.op = "add" =>
          /\ out.ret = (Len(suppliers) = out.n0 + 1 /\ Len(index) = out.v0 + 1)
          /\ (~out.ret) = (Len(suppliers) = out.n0 /\ Len(index) = out.v0)
    /\ out.op = "save_to_kb" =>
          /\ out.ret = Len(suppliers) - out.n0
          /\ out.ret = Len(index) - out.v0

\* a file that is there, readable or not
Present(f) == f.state # "absent"

\* the number of entries a file holds
Held(f) == IF f.state = "ok" THEN Len(f.data) ELSE 0

\* C12: constructing a SupplierKnowledgeBase fails when only one of the two
\* files is there or when a file is corrupt, never gives an empty store
\* while a file of the directory holds entries, and no later add replaces a
\* file by one that holds fewer entries.
C12_NoSilentReset ==
    /\ [](out.op = "load" =>
            /\ (Present(disk.index) # Present(disk.meta)) => out.raised
            /\ (disk.index.state = "corrupt" \/ disk.meta.state = "corrupt")
                  => out.raised
            /\ (~out.raised /\ suppliers = <<>>) =>
                  (Held(disk.index) = 0 /\ Held(disk.meta) = 0))
    /\ [][/\ Held(disk'.index) >= Held(disk.index)
          /\ disk'.meta.state = "ok" => Held(disk'.meta) >= Held(disk.meta)]_vars

\* C13: when _save_index fails inside add_supplier or add_suppliers_batch,
\* the vectors and records appended by the call stay in memory, and what
\* the caller gets differs from what a call whose write completed returns:
\* add_supplier does not return True, the batch does not return the count
\* of the items it added.
C13_PersistenceFailureReported ==
    (out.op \in {"add", "save_to_kb"} /\ out.saved /\ out.dfault # "none") =>
        /\ Len(index) > out.v0
        /\ Len(suppliers) >= out.n0
        /\ out.op = "add" => out.ret # TRUE
        /\ out.op = "save_to_kb" => out.ret # success_count(out.batch)

\* a is a prefix of b
IsPrefix(a, b) == Len(a) <= Len(b) /\ SubSeq(b, 1, Len(a)) = a

\* C16: over every add_supplier, save_to_knowledge_base / add_suppliers_batch
\* call and every reload that returns a store, the metadata sequence before
\* the step is a prefix of the one after it.
C16_AppendOnly == [][up' => IsPrefix(suppliers, suppliers')]_vars

\* C14: when the embedding call fails during search_suppliers on a store
\* that holds records, the caller gets an error, not an empty list.
C14_EmbeddingFailurePropagated ==
    (out.op = "search" /\ Len(suppliers) > 0 /\ ~out.embedOk) => out.raised

\* the candidates _merge_results builds from a list of local results
LocalCandidates(local) == [i \in 1..Len(local) |-> LocalCandidate(local[i])]

\* C15: when HybridSearchEngine.search makes the web search and the web
\* search fails (an API error, an exception or no organic results, for the
\* query and for the simplified query), the call does not raise and returns
\* the local results and nothing else.
C15_WebFailureDegrades ==
    (/\ out.op = "hybrid"
     /\ out.web_calls = 1
     /\ out.first \in WebFailures
     /\ out.second \in WebFailures) =>
        /\ ~out.raised
        /\ out.google = <<>>
        /\ out.results = LocalCandidates(out.local)

\* a search with a local result in which the first query raised and the
\* simplified query got an API error: the local result is what is returned
C15_Witness ==
    /\ out.op = "hybrid"
    /\ out.web_calls = 1
    /\ out.first = "exception"
    /\ out.second = "error"
    /\ out.local # <<>>
    /\ out.results = LocalCandidates(out.local)

\* C17: the list HybridSearchEngine.search returns is the merge of the
\* local and the web results cut at local_k + google_k, so that every local
\* result is in it.
C17_CapIsSum ==
    out.op = "hybrid" =>
        /\ out.results =
              merge_results(out.local, out.google, out.local_k + out.google_k)
        /\ Len(out.results) >= Len(out.local)
        /\ \A i \in 1..Len(out.local) :
              out.results[i] = LocalCandidate(out.local[i])

\* C18: the local results of HybridSearchEngine.search are exactly the
\* records among the local_k nearest whose similarity is at least the
\* min_similarity of the call, whatever that threshold is.
C18_HybridHonoursThreshold ==
    (out.op = "hybrid" /\ out.embedOk) =>
        out.local =
            search_suppliers(index, suppliers, out.q, out.local_k, out.ms, TRUE).results

\* a line of content_parts whose field has a value
HasValue(p) == p[3] # ""

\* C19: _build_document_content gives one labelled line per field that is
\* neither empty nor absent, in the order company name, category, match
\* type, snippet, reason, and no line for an empty or absent field.
C19_DocumentOmitsEmpty ==
    out.op = "doc" =>
        out.content = SelectSeq(content_parts(out.supplier), HasValue)

\* C20: nothing the caller does to the list get_all_suppliers returned, or
\* to a record in it, changes the store's metadata, what a later search
\* returns or what a later _save_index writes.
C20_SnapshotIndependent ==
    out.op = "get_all" =>
        /\ suppliers = out.before
        /\ json_dump(suppliers) = json_dump(out.before)
        /\ \A q \in Queries, k \in 1..MaxK :
              search_suppliers(index, suppliers, q, k, DefaultMinSimilarity, TRUE)
                = search_suppliers(index, out.before, q, k, DefaultMinSimilarity, TRUE)

\* C23: no two entries of the list search returns have titles that are
\* equal when case is ignored
C23_DeduplicatedOutput ==
    (out.op = "hybrid" /\ ~out.raised) =>
        \A i, j \in 1..Len(out.results) :
            i # j => Lower(out.results[i].title) # Lower(out.results[j].title)

\* the entries of a returned list that carry the local tag
IsLocal(c) == c.source = LocalTag

\* C29: the statistics describe the returned list: total_count is its
\* length, local_count and the local entry of sources the number of its
\* local-tagged entries, the web entry of sources the number of its
\* web-tagged entries, and local and web add up to the total
C29_StatsDescribeResult ==
    (out.op = "hybrid" /\ ~out.raised) =>
        /\ out.stats.total_count = Len(out.results)
        /\ out.stats.local_count = Len(SelectSeq(out.results, IsLocal))
        /\ out.stats.sources_local = Len(SelectSeq(out.results, IsLocal))
        /\ out.stats.sources_web = Len(SelectSeq(out.results, IsWeb))
        /\ out.stats.local_count + out.stats.sources_web = out.stats.total_count

\* C27: create_google_search_tool makes the simplified query exactly when
\* the first query returned no results, makes at most two searches, ranks
\* only when a search it made returned results, and returns at most
\* TOP_N_SUPPLIERS candidates, none when both searches returned nothing
C27_SearchToolRetry ==
    out.op = "tool" =>
        /\ ~out.raised
        /\ (out.calls = 2) <=> (out.first # "results")
        /\ out.calls \in {1, 2}
        /\ out.rankings \in {0, 1}
        /\ (out.rankings = 1) =>
              (out.first = "results" \/ (out.calls = 2 /\ out.second = "results"))
        /\ Len(out.results) <= TOP_N_SUPPLIERS
        /\ (out.first # "results" /\ out.second # "results") => out.results = <<>>

\* the first query fails, the simplified one finds results, and the ranked
\* list is longer than the cut
C27_Witness ==
    /\ out.op = "tool"
    /\ out.first = "exception"
    /\ out.second = "results"
    /\ out.calls = 2
    /\ out.rankings = 1
    /\ Len(out.ranked) > TOP_N_SUPPLIERS
    /\ out.results = Take(out.ranked, TOP_N_SUPPLIERS)

\* C25: the similarity of a distance is strictly decreasing in the distance,
\* is 1 at distance 0 and lies in (0, 1]; the rounded similarity_score has
\* the same three properties
C25_SimilarityMonotone ==
    out.op = "similarity" =>
        /\ out.d1 < out.d2 => out.s1 > out.s2
        /\ out.d1 = 0 => out.s1 = 1000000
        /\ 0 < out.s1 /\ out.s1 <= 1000000
        /\ out.d1 < out.d2 => out.score1 > out.score2
        /\ out.d1 = 0 => out.score1 = 1000000
        /\ 0 < out.score1 /\ out.score1 <= 1000000

\* the positions of the calls of one kind in a list of calls
CallsOf(calls, kind) == {i \in 1..Len(calls) : calls[i].call = kind}

\* C24: in add_suppliers_batch every embedding call of the batch is made
\* before the first write to disk; the call writes the snapshot of index and
\* metadata once when an item of the batch was embedded, and not at all when
\* none was.  A write is a call of _save_index, and with no disk fault the
\* files after it are the whole store.
C24_OneWritePerBatch ==
    (out.op = "save_to_kb" /\ out.batch # <<>>) =>
        /\ Cardinality(CallsOf(out.calls, "embed_query")) = Len(out.batch)
        /\ \A e \in CallsOf(out.calls, "embed_query"),
              w \in CallsOf(out.calls, "_save_index") : e < w
        /\ Cardinality(CallsOf(out.calls, "_save_index"))
              = IF \E i \in 1..Len(out.batch) : EmbeddedItem(out.batch[i])
                THEN 1 ELSE 0
        /\ out.saved <=> CallsOf(out.calls, "_save_index") # {}
        /\ (out.saved /\ out.dfault = "none") =>
              disk = [index |-> FileOf(index), meta |-> FileOf(json_dump(suppliers))]
        /\ ~out.saved => Len(index) = out.v0

\* a batch of two items, both embedded, written once
C24_Witness ==
    /\ out.op = "save_to_kb"
    /\ Len(out.batch) = 2
    /\ \A i \in 1..2 : EmbeddedItem(out.batch[i])
    /\ Cardinality(CallsOf(out.calls, "_save_index")) = 1
    /\ out.dfault = "none"
    /\ Len(index) = out.v0 + 2

\* C28: find_contact_info tries the contact page, then LinkedIn, then the
\* pattern guess; it returns the first result that exists and is not of low
\* confidence and starts no strategy after it; it always returns a contact,
\* so batch_find_contacts returns its input, in order, with a contact on
\* every entry
C28_ContactCascade ==
    out.op = "contacts" =>
        /\ Len(out.enriched) = Len(out.todo)
        /\ \A i \in 1..Len(out.todo) :
              LET e == out.enriched[i]
                  t == out.todo[i]
                  c1 == strategy_1_search_contact_page(t.s1)
                  c2 == strategy_2_linkedin_search(t.s2)
                  good1 == t.s1 \in {"high", "unrated"}
                  good2 == t.s2 = "medium"
              IN /\ e.supplier.title = t.s.title
                 /\ e.supplier.link = t.s.link
                 /\ "contact" \in DOMAIN e.supplier
                 /\ e.supplier.contact # NoneValue
                 /\ e.started \in {<<1>>, <<1, 2>>, <<1, 2, 3>>}
                 /\ good1 => (e.started = <<1>> /\ e.supplier.contact = c1)
                 /\ (~good1 /\ good2) => (e.started = <<1, 2>> /\ e.supplier.contact = c2)
                 /\ (~good1 /\ ~good2) =>
                       /\ e.started = <<1, 2, 3>>
                       /\ e.supplier.contact = strategy_3_smart_guess(t.s.link)

\* two suppliers: for the first the contact page gives a contact of low
\* confidence and LinkedIn a profile, for the second neither gives anything
C28_Witness ==
    /\ out.op = "contacts"
    /\ Len(out.todo) = 2
    /\ out.todo[1].s1 = "low" /\ out.todo[1].s2 = "medium"
    /\ out.enriched[1].started = <<1, 2>>
    /\ out.enriched[1].supplier.contact.name = "Bo Chen"
    /\ out.todo[2].s1 = "none" /\ out.todo[2].s2 = "none"
    /\ out.enriched[2].started = <<1, 2, 3>>
    /\ out.enriched[2].supplier.contact.confidence = "low"

\* the position of a step in the steps of a run, 0 when it was not taken
StepAt(steps, name) ==
    IF \E i \in 1..Len(steps) : steps[i] = name
    THEN CHOOSE i \in 1..Len(steps) : steps[i] = name
    ELSE 0

\* C26: in run_complete_pipeline the steps come in the order PDF parsing,
\* hybrid search, contact enrichment, save-back, presentation: the results
\* are presented after save_to_knowledge_base was called
C26_PipelineOrder ==
    out.op = "pipeline" =>
        LET Before2(a, b) ==
                (StepAt(out.steps, a) # 0 /\ StepAt(out.steps, b) # 0)
                    => StepAt(out.steps, a) < StepAt(out.steps, b)
        IN /\ Before2("parse_pdf", "search")
           /\ Before2("search", "batch_find_contacts")
           /\ Before2("batch_find_contacts", "save_to_knowledge_base")
           /\ Before2("save_to_knowledge_base", "print_suppliers_with_contacts")
           /\ StepAt(out.steps, "print_suppliers_with_contacts") # 0
                 => StepAt(out.steps, "save_to_knowledge_base") # 0

\* C30: from an empty store, after any number of runs that search and pass
\* the result to save_to_knowledge_base, no two records of the store have
\* company names that are equal when case is ignored
C30_NoDuplicateRecords ==
    \A i, j \in 1..Len(suppliers) :
        i # j => Lower(suppliers[i].company_name) # Lower(suppliers[j].company_name)

\* the local candidate e has the values of the saved candidate c in the
\* fields C22 names, as far as c has them
SameFields(c, e) ==
    /\ c.title = e.title
    /\ c.link = e.link
    /\ c.match_type = e.match_type
    /\ c.score = e.score
    /\ "contact" \in DOMAIN c =>
          \A key \in {"name", "email", "phone"} \cap DOMAIN c.contact :
              c.contact[key] = e.contact[key]

\* C22: a candidate returned as a local result has the title, link, match
\* type, score and contact name, email and phone of a web candidate that
\* was saved with save_to_knowledge_base
C22_LocalIsFaithfulView ==
    out.op = "pipeline" =>
        \A i \in 1..Len(out.shown) :
            out.shown[i].source = LocalTag =>
                \E c \in out.history : SameFields(c, out.shown[i])

\* the two processes loaded the directory in the same state and both have
\* added and saved
BothSaved ==
    /\ writers # NoWriters
    /\ \A p \in Procs : writers[p].pc = "done"
    /\ writers[1].seen = writers[2].seen

\* the metadata file holds, after the records the processes loaded, the
\* record each process added
BothOnDisk ==
    \E i, j \in (Len(json_load(writers[1].seen.meta.data)) + 1)
                    ..Len(json_load(disk.meta.data)) :
        /\ i # j
        /\ json_load(disk.meta.data)[i] = writers[1].record
        /\ json_load(disk.meta.data)[j] = writers[2].record

\* C21: two processes that loaded the same directory and each added a
\* supplier can leave the files such that the metadata at some ordinal does
\* not describe the vector at that ordinal, or such that the record one of
\* them added is not on disk.  In the model no interleaving of their writes
\* avoids both.
C21_ConcurrentWritersBreakStore ==
    BothSaved =>
        \/ ~Aligned(disk.index.data, json_load(disk.meta.data))
        \/ ~BothOnDisk

\* the interleaving in which the index file is the one of process 2 and the
\* metadata file the one of process 1: the vector at the last ordinal is
\* not the one of the record at that ordinal
C21_Witness ==
    /\ BothSaved
    /\ disk.index.data = writers[2].index
    /\ json_load(disk.meta.data) = writers[1].suppliers
    /\ Len(disk.index.data) = Len(json_load(disk.meta.data))
    /\ \E i \in 1..Len(disk.index.data) :
          disk.index.data[i] # VectorOf(json_load(disk.meta.data)[i])

====
